---- MODULE Spec2Model ----
(***************************************************************************)
(* A model of the BPC303 session class of Thorlabs_BPC303/bpc303.py: one   *)
(* session object, the controller and channel objects of the vendor driver *)
(* it holds, and the caller's scope (a plain reference or a with-block),   *)
(* and of the window of Thorlabs_BPC303/bpc303gui.py that holds a session. *)
(* Every method is one action; the driver calls a method makes are logged  *)
(* in the order the method makes them.                                     *)
(***************************************************************************)
EXTENDS Integers, Sequences, FiniteSets, TLC

\* bounds of the model
MaxPos == 1          \* number of distinct position values a caller passes

\* ------------------------------------------------------------------ data

Axes == <<"x", "y", "z">>
AxisSet == {"x", "y", "z"}
ChannelNos == {1, 2, 3}

\* the value None of an attribute or argument, and a channel handle
None == 0
Handle(channelno) == channelno

\* the device identities a caller passes: the one the repository names and
\* another one; the device list the device manager builds holds any of them
KnownID == "71858688"
OtherIDs == {"00000000"}
DeviceIDs == {KnownID} \cup OtherIDs
DeviceLists == SUBSET DeviceIDs

\* the axis-to-channel mappings: the default and every other bijection
DefaultMapping == [a \in AxisSet |-> CASE a = "x" -> 1 [] a = "y" -> 2 [] a = "z" -> 3]
Mappings == {m \in [AxisSet -> ChannelNos] : \A a, b \in AxisSet : a # b => m[a] # m[b]}

\* axis tokens a caller may pass
BadTokens == {"q"}
ZeroTokens == AxisSet \cup {"all"} \cup BadTokens
IdentifyTokens == AxisSet \cup BadTokens

\* positions a caller passes, in thousandths of a micrometre; an absent
\* coordinate is the empty tuple and a given one a 1-tuple
PosValues == {2500 * k : k \in 1..MaxPos}
Absent == <<>>
Given(v) == <<v>>
PosArgs == {Absent} \cup {Given(v) : v \in PosValues}

\* System.Decimal(pos): a mantissa and a scale (the number of decimal
\* places), without trailing zeros; a position of at most three decimals has
\* fewer than the 15 significant digits the conversion keeps
RECURSIVE Normalise(_, _)
Normalise(mant, scale) ==
    IF scale > 0 /\ mant % 10 = 0 THEN Normalise(mant \div 10, scale - 1)
    ELSE <<mant, scale>>

Decimal(pos) == Normalise(pos, 3)

RECURSIVE Pow10(_)
Pow10(n) == IF n = 0 THEN 1 ELSE 10 * Pow10(n - 1)

\* the value of a Decimal in thousandths of a micrometre
Thousandths(dec) == dec[1] * Pow10(3 - dec[2])

\* scope: how the caller holds the session ("none", "plain", "with", "exited")
\* stage: the attributes of the session object
\* drv:   the controller and channel objects CreateBenchtopPiezo gave the
\*        session: connection, polling, enabling, mode, zero, position
\* last:  the last call, its arguments, its driver calls in order, the
\*        exception it raised, what it printed and what it returned
\* window: the main window of the GUI: whether its attribute stage is a
\*        session (then the variable stage holds that session's attributes),
\*        its buttons, its LED, and the driver objects of the session it
\*        replaced last
VARIABLES scope, stage, drv, last, window

vars == <<scope, stage, drv, last, window>>

\* ---------------------------------------------------------------- driver

Cmd(name, ch, val, mode) == [cmd |-> name, ch |-> ch, val |-> val, mode |-> mode]

FreshDriver ==
    [IsConnected |-> FALSE,
     polling     |-> [c \in ChannelNos |-> FALSE],
     enabled     |-> [c \in ChannelNos |-> FALSE],
     mode        |-> [c \in ChannelNos |-> "unset"],
     zeroed      |-> [c \in ChannelNos |-> FALSE],
     position    |-> [c \in ChannelNos |-> <<>>]]

\* --------------------------------------------------------------- session

\* the timeout of WaitForSettingsInitialized and the polling interval, in ms
SettingsTimeout == 5000
PollingInterval == 100

NoStage ==
    [deviceID          |-> "",
     isconnected       |-> FALSE,
     axis_chan_mapping |-> DefaultMapping,
     controller        |-> FALSE,
     channel           |-> [a \in AxisSet |-> None]]

\* the running state of a method: the session, the driver objects, the
\* driver calls made so far, the exception raised (if any), what the method
\* printed and what it returns
World(s, d) ==
    [s |-> s, d |-> d, cmds |-> <<>>, exc |-> "none", out |-> <<>>, ret |-> <<>>]

Issue(w, c) == [w EXCEPT !.cmds = Append(@, c)]
Raise(w, e) == [w EXCEPT !.exc = e]
Say(w, text) == [w EXCEPT !.out = Append(@, text)]
Raised(w) == w.exc # "none"

\* __init__ without the membership test of the device list
init_Unchecked(w, deviceID, axis_chan_mapping, DeviceList) ==
    LET w1 == Issue(w, Cmd("BuildDeviceList", 0, <<>>, ""))
        w2 == [w1 EXCEPT !.s = [NoStage EXCEPT !.deviceID = deviceID,
                                               !.isconnected = FALSE,
                                               !.axis_chan_mapping = axis_chan_mapping]]
        w3 == Issue(w2, Cmd("CreateBenchtopPiezo", 0, <<>>, ""))
    IN  [w3 EXCEPT !.s.controller = TRUE, !.d = FreshDriver]

\* BPC303.__init__; DeviceList is what DeviceManagerCLI.GetDeviceList() returns
init(w, deviceID, axis_chan_mapping, DeviceList) ==
    LET w1 == Issue(w, Cmd("BuildDeviceList", 0, <<>>, ""))
        w2 == [w1 EXCEPT !.s = [NoStage EXCEPT !.deviceID = deviceID,
                                               !.isconnected = FALSE,
                                               !.axis_chan_mapping = axis_chan_mapping]]
    IN  IF deviceID \in DeviceList
        THEN LET w3 == Issue(w2, Cmd("CreateBenchtopPiezo", 0, <<>>, ""))
             IN  [w3 EXCEPT !.s.controller = TRUE, !.d = FreshDriver]
        ELSE Raise(w2, "DeviceNotReadyException")

\* BPC303.__get_chan
get_chan(w, axis) == w.s.channel[axis]

\* controller.Connect: the driver reports success, reports none, or raises
ControllerConnect(w, open) ==
    LET w1 == Issue(w, Cmd("Connect", 0, <<>>, ""))
    IN  CASE open = "done"    -> [w1 EXCEPT !.d.IsConnected = TRUE]
          [] open = "failed"  -> w1
          [] open = "raise" -> Raise(w1, "ConnectException")

\* the channel enabled before its polling is started
StartAndEnable_EnableFirst(w, channel) ==
    LET w1 == Issue(w, Cmd("EnableDevice", channel, <<>>, ""))
        w2 == [w1 EXCEPT !.d.enabled[channel] = TRUE]
        w3 == Issue(w2, Cmd("StartPolling", channel, <<PollingInterval>>, ""))
    IN  [w3 EXCEPT !.d.polling[channel] = TRUE]

StartAndEnable(w, channel) ==
    LET w1 == Issue(w, Cmd("StartPolling", channel, <<PollingInterval>>, ""))
        w2 == [w1 EXCEPT !.d.polling[channel] = TRUE]
        w3 == Issue(w2, Cmd("EnableDevice", channel, <<>>, ""))
    IN  [w3 EXCEPT !.d.enabled[channel] = TRUE]

\* one pass of the loop of connect that does not stop at the exception of an
\* earlier pass
ConnectChannel_GoesOn(w, axis, settings) ==
    LET channelno == w.s.axis_chan_mapping[axis]
        w1 == Issue(w, Cmd("GetChannel", channelno, <<>>, ""))
        w2 == [w1 EXCEPT !.s.channel[axis] = Handle(channelno)]
        channel == get_chan(w2, axis)
        w3 == Issue(w2, Cmd("IsSettingsInitialized", channel, <<>>, ""))
        w4 == Issue(w3, Cmd("WaitForSettingsInitialized", channel,
                            <<SettingsTimeout>>, ""))
    IN  CASE settings = "ready"   -> Say(StartAndEnable(w3, channel), axis)
          [] settings = "waited"  -> Say(StartAndEnable(w4, channel), axis)
          [] settings = "timeout" -> Raise(w4, "SettingsTimeoutException")

\* BPC303.connect, one pass of its loop; the channel's settings are ready,
\* become ready within the timeout, or the wait raises
ConnectChannel(w, axis, settings) ==
    IF Raised(w) THEN w
    ELSE LET channelno == w.s.axis_chan_mapping[axis]
             w1 == Issue(w, Cmd("GetChannel", channelno, <<>>, ""))
             w2 == [w1 EXCEPT !.s.channel[axis] = Handle(channelno)]
             channel == get_chan(w2, axis)
             w3 == Issue(w2, Cmd("IsSettingsInitialized", channel, <<>>, ""))
             w4 == Issue(w3, Cmd("WaitForSettingsInitialized", channel,
                                 <<SettingsTimeout>>, ""))
         IN  CASE settings = "ready"   -> Say(StartAndEnable(w3, channel), axis)
               [] settings = "waited"  -> Say(StartAndEnable(w4, channel), axis)
               [] settings = "timeout" -> Raise(w4, "SettingsTimeoutException")

\* BPC303.connect
connect(w, open, settings) ==
    LET w1 == ControllerConnect(w, open)
        w2 == IF Raised(w1) THEN w1
              ELSE Say([w1 EXCEPT !.s.isconnected = w1.d.IsConnected],
                       IF w1.d.IsConnected THEN "done" ELSE "failed")
    IN  ConnectChannel(
            ConnectChannel(
                ConnectChannel(w2, Axes[1], settings[Axes[1]]),
                Axes[2], settings[Axes[2]]),
            Axes[3], settings[Axes[3]])

\* identify without the test of the axis token: the attribute named after
\* the token is looked up, and a session has no such attribute
identify_Unchecked(w, axis) ==
    IF axis \in AxisSet
    THEN LET channel == get_chan(w, axis)
         IN  IF channel = None THEN Raise(w, "AttributeError")
             ELSE Say(Issue(w, Cmd("IdentifyDevice", channel, <<>>, "")), "done")
    ELSE Raise(w, "AttributeError")

\* BPC303.identify
identify(w, axis) ==
    IF axis \in AxisSet
    THEN LET channel == get_chan(w, axis)
         IN  IF channel = None THEN Raise(w, "AttributeError")
             ELSE Say(Issue(w, Cmd("IdentifyDevice", channel, <<>>, "")), "done")
    ELSE Say(w, "axis invalid")

SetMode(w, axis, mode) ==
    IF Raised(w) THEN w
    ELSE LET channel == get_chan(w, axis)
         IN  IF channel = None THEN Raise(w, "AttributeError")
             ELSE LET w1 == Issue(w, Cmd("SetPositionControlMode", channel, <<>>, mode))
                  IN  [w1 EXCEPT !.d.mode[channel] = mode]

\* BPC303.set_close_loop
set_close_loop(w, yes) ==
    LET mode == IF yes THEN "CloseLoop" ELSE "OpenLoop"
    IN  SetMode(SetMode(SetMode(w, Axes[1], mode), Axes[2], mode), Axes[3], mode)

\* BPC303.__zero_axis
zero_axis(w, axis) ==
    IF Raised(w) THEN w
    ELSE IF axis \in AxisSet
         THEN LET channel == get_chan(w, axis)
              IN  IF channel = None THEN Raise(w, "AttributeError")
                  ELSE LET w1 == Issue(w, Cmd("SetZero", channel, <<>>, ""))
                       IN  Say([w1 EXCEPT !.d.zeroed[channel] = TRUE], "done")
         ELSE Say(w, "axis invalid")

\* zero with every token other than x, y, z taken for "all"
zero_ElseAll(w, axis) ==
    IF axis \in AxisSet
    THEN zero_axis(w, axis)
    ELSE zero_axis(zero_axis(zero_axis(w, Axes[1]), Axes[2]), Axes[3])

\* BPC303.zero
zero(w, axis) ==
    IF axis = "all"
    THEN zero_axis(zero_axis(zero_axis(w, Axes[1]), Axes[2]), Axes[3])
    ELSE IF axis \in AxisSet
         THEN zero_axis(w, axis)
         ELSE Say(w, "axis invalid")

\* BPC303.__set_axis_position
set_axis_position(w, axis, pos) ==
    IF axis \in AxisSet
    THEN LET channel == get_chan(w, axis)
         IN  IF channel = None THEN Raise(w, "AttributeError")
             ELSE LET w1 == Issue(w, Cmd("SetPosition", channel, Decimal(pos), ""))
                  IN  Say([w1 EXCEPT !.d.position[channel] = Decimal(pos)], "done")
    ELSE Say(w, "axis invalid")

\* one pass of the loop of set_position without the test for None: an
\* absent coordinate is taken for 0
SetAxis_NoSkip(w, axis, pos) ==
    IF Raised(w) THEN w
    ELSE set_axis_position(w, axis, IF pos = Absent THEN 0 ELSE pos[1])

\* BPC303.set_position, one pass of its loop
SetAxis(w, axis, pos) ==
    IF Raised(w) THEN w
    ELSE IF pos = Absent THEN w
         ELSE set_axis_position(w, axis, pos[1])

\* BPC303.set_position; pos maps each axis to its argument
set_position(w, pos) ==
    SetAxis(SetAxis(SetAxis(w, "x", pos["x"]), "y", pos["y"]), "z", pos["z"])

\* the items of the mapping in the order x, y, z, without the sort
SortedMap_Unsorted(mapping, axes) ==
    SelectSeq(Axes, LAMBDA a : a \in axes)

\* sorted(self.axis_chan_mapping.items(), key=operator.itemgetter(1))
RECURSIVE SortedMap(_, _)
SortedMap(mapping, axes) ==
    IF axes = {} THEN <<>>
    ELSE LET first == CHOOSE a \in axes : \A b \in axes : mapping[a] <= mapping[b]
         IN  <<first>> \o SortedMap(mapping, axes \ {first})

RECURSIVE InfoSections(_, _)
InfoSections(w, items) ==
    IF Raised(w) \/ items = <<>> THEN w
    ELSE LET axis == Head(items)
             channel == get_chan(w, axis)
         IN  IF channel = None THEN Raise(w, "AttributeError")
             ELSE LET w1 == Issue(w, Cmd("GetDeviceInfo", channel, <<>>, ""))
                      w2 == Issue(w1, Cmd("GetPiezoConfiguration", channel, <<>>, ""))
                  IN  InfoSections(
                          [w2 EXCEPT !.ret = Append(@, <<w.s.axis_chan_mapping[axis], axis>>)],
                          Tail(items))

\* BPC303.get_info; the string returned is the sequence of its sections
get_info(w) ==
    LET w1 == Issue(w, Cmd("GetDeviceInfo", 0, <<>>, ""))
        w2 == [w1 EXCEPT !.ret = <<<<0, "Controller">>>>]
        w3 == InfoSections(w2, SortedMap(w.s.axis_chan_mapping, AxisSet))
    IN  IF Raised(w3) THEN [w3 EXCEPT !.ret = <<>>] ELSE w3

\* one pass of the loop of shutdown with the channel disabled before its
\* polling is stopped
ShutdownChannel_DisableFirst(w, axis) ==
    IF Raised(w) THEN w
    ELSE LET channel == get_chan(w, axis)
         IN  IF channel = None THEN Raise(w, "AttributeError")
             ELSE LET w1 == Issue(w, Cmd("DisableDevice", channel, <<>>, ""))
                      w2 == [w1 EXCEPT !.d.enabled[channel] = FALSE]
                      w3 == Issue(w2, Cmd("StopPolling", channel, <<>>, ""))
                  IN  [w3 EXCEPT !.d.polling[channel] = FALSE]

\* BPC303.shutdown, one pass of its loop
ShutdownChannel(w, axis) ==
    IF Raised(w) THEN w
    ELSE LET channel == get_chan(w, axis)
         IN  IF channel = None THEN Raise(w, "AttributeError")
             ELSE LET w1 == Issue(w, Cmd("StopPolling", channel, <<>>, ""))
                      w2 == [w1 EXCEPT !.d.polling[channel] = FALSE]
                      w3 == Issue(w2, Cmd("DisableDevice", channel, <<>>, ""))
                  IN  [w3 EXCEPT !.d.enabled[channel] = FALSE]

ControllerDisconnect(w) ==
    IF Raised(w) THEN w
    ELSE LET w1 == Issue(w, Cmd("Disconnect", 0, <<>>, ""))
         IN  [w1 EXCEPT !.d.IsConnected = FALSE]

\* shutdown without the test of controller.IsConnected
shutdown_Untested(w) ==
    IF ~w.s.controller THEN Raise(w, "AttributeError")
    ELSE ControllerDisconnect(
             ShutdownChannel(ShutdownChannel(ShutdownChannel(w, Axes[1]), Axes[2]), Axes[3]))

\* BPC303.shutdown
shutdown(w) ==
    IF ~w.s.controller THEN Raise(w, "AttributeError")
    ELSE IF w.d.IsConnected
         THEN ControllerDisconnect(
                  ShutdownChannel(ShutdownChannel(ShutdownChannel(w, Axes[1]), Axes[2]), Axes[3]))
         ELSE w

\* BPC303.__del__: what shutdown raises in a finaliser is not propagated
del(w) == [shutdown(w) EXCEPT !.exc = "none"]

\* BPC303.__exit__: shutdown, then True if exc_type is None else False; an
\* exception of the block is suppressed only by a true return value
exit(w, exc_type) ==
    LET w1 == shutdown(w)
        ret == (exc_type = "none")
        w2 == [w1 EXCEPT !.ret = <<ret>>]
    IN  IF Raised(w1) THEN w1
        ELSE IF exc_type # "none" /\ ~ret THEN Raise(w2, exc_type)
             ELSE w2

\* -------------------------------------------------------------- actions

\* what the last call was, with its arguments, and how it ended
Done(op, arg, w) ==
    [op |-> op, arg |-> arg, exc |-> w.exc, cmds |-> w.cmds, out |-> w.out,
     ret |-> w.ret]

NoArg == [none |-> TRUE]

\* mywindow.__init__: no session, the LED as designed; the buttons that
\* command the stage are enabled by a connection
NoWindow == [held |-> FALSE, enabled |-> FALSE, led |-> "", replaced |-> <<>>]

Init ==
    /\ scope = "none"
    /\ stage = NoStage
    /\ drv = FreshDriver
    /\ last = [op |-> "start", arg |-> NoArg, exc |-> "none", cmds |-> <<>>,
               out |-> <<>>, ret |-> <<>>]
    /\ window = NoWindow

\* BPC303(deviceID, mapping), as a plain reference or as the subject of a
\* with-block; a session whose construction raises is finalised at once
Construct ==
    /\ scope = "none"
    /\ UNCHANGED window
    /\ \E deviceID \in DeviceIDs, mapping \in Mappings, scoped \in BOOLEAN,
          DeviceList \in DeviceLists :
          LET w == init(World(NoStage, drv), deviceID, mapping, DeviceList)
              arg == [deviceID |-> deviceID, mapping |-> mapping, DeviceList |-> DeviceList]
          IN  IF Raised(w)
              THEN LET wd == del(w)
                   IN  /\ scope' = "none"
                       /\ stage' = NoStage
                       /\ drv' = wd.d
                       /\ last' = Done("__init__", arg, [wd EXCEPT !.exc = w.exc])
              ELSE /\ scope' = IF scoped THEN "with" ELSE "plain"
                   /\ stage' = w.s
                   /\ drv' = w.d
                   /\ last' = Done("__init__", arg, w)

\* a method may be called: the session is referenced and, inside a
\* with-block, no exception is on its way out of the block
Callable ==
    \/ scope = "plain"
    \/ scope = "with" /\ last.exc = "none"

Call(op, arg, w) ==
    /\ stage' = w.s
    /\ drv' = w.d
    /\ last' = Done(op, arg, w)
    /\ UNCHANGED <<scope, window>>

\* the first axis, in the order of the loop of connect, whose wait for the
\* settings raises
TimedOut(settings) ==
    IF \E k \in DOMAIN Axes : settings[Axes[k]] = "timeout"
    THEN Axes[CHOOSE k \in DOMAIN Axes :
                 /\ settings[Axes[k]] = "timeout"
                 /\ \A l \in DOMAIN Axes : l < k => settings[Axes[l]] # "timeout"]
    ELSE "none"

Connect ==
    /\ Callable
    /\ \E open \in {"done", "failed", "raise"},
          settings \in [AxisSet -> {"ready", "waited", "timeout"}] :
          Call("connect", [open |-> open, timeout |-> TimedOut(settings)],
               connect(World(stage, drv), open, settings))

Identify ==
    /\ Callable
    /\ \E axis \in IdentifyTokens :
          Call("identify", [axis |-> axis], identify(World(stage, drv), axis))

SetCloseLoop ==
    /\ Callable
    /\ \E yes \in BOOLEAN :
          Call("set_close_loop", [yes |-> yes], set_close_loop(World(stage, drv), yes))

Zero ==
    /\ Callable
    /\ \E axis \in ZeroTokens :
          Call("zero", [axis |-> axis], zero(World(stage, drv), axis))

SetPosition ==
    /\ Callable
    /\ \E pos \in [AxisSet -> PosArgs] :
          Call("set_position", [pos |-> pos], set_position(World(stage, drv), pos))

GetInfo ==
    /\ Callable
    /\ Call("get_info", NoArg, get_info(World(stage, drv)))

Shutdown ==
    /\ Callable
    /\ Call("shutdown", NoArg, shutdown(World(stage, drv)))

\* the body of the with-block raises by itself
BodyRaises ==
    /\ scope = "with"
    /\ last.exc = "none"
    /\ last' = [op |-> "body", arg |-> NoArg, exc |-> "BodyError", cmds |-> <<>>,
                out |-> <<>>, ret |-> <<>>]
    /\ UNCHANGED <<scope, stage, drv, window>>

\* the with-block is left, by its end or by the exception on its way out
WithExit ==
    /\ scope = "with"
    /\ UNCHANGED window
    /\ LET w == exit(World(stage, drv), last.exc)
       IN  /\ scope' = "exited"
           /\ stage' = w.s
           /\ drv' = w.d
           /\ last' = Done("__exit__", [exc_type |-> last.exc], w)

\* the last reference to the session goes (del stage): __del__ runs
Destroy ==
    /\ scope \in {"plain", "exited"}
    /\ UNCHANGED window
    /\ LET w == del(World(stage, drv))
       IN  /\ scope' = "none"
           /\ stage' = NoStage
           /\ drv' = w.d
           /\ last' = Done("__del__", NoArg, w)

\* the life of a session: construction, connection, shutdown, finalisation
Next ==
    \/ Construct
    \/ Connect
    \/ Identify
    \/ GetInfo
    \/ Shutdown
    \/ BodyRaises
    \/ WithExit
    \/ Destroy

Spec == Init /\ [][Next]_vars

\* the commands of a session: a session just constructed, or constructed and
\* connected with every driver call succeeding, then commanded and shut down
AllReady == [a \in AxisSet |-> "ready"]

InitOps ==
    /\ scope = "plain"
    /\ window = NoWindow
    /\ \E mapping \in Mappings, connected \in BOOLEAN :
          LET w0 == init(World(NoStage, FreshDriver), KnownID, mapping, {KnownID})
              w1 == connect(World(w0.s, w0.d), "done", AllReady)
          IN  IF connected
              THEN stage = w1.s /\ drv = w1.d /\ last = Done("connect", [open |-> "done", timeout |-> TimedOut(AllReady)], w1)
              ELSE stage = w0.s /\ drv = w0.d
                   /\ last = Done("__init__", [deviceID |-> KnownID, mapping |-> mapping,
                                                DeviceList |-> {KnownID}], w0)

NextOps ==
    \/ SetCloseLoop
    \/ Zero
    \/ SetPosition
    \/ Shutdown

SpecOps == InitOps /\ [][NextOps]_vars

\* ------------------------------------------------------------------ GUI

\* what is kept of the driver objects of a session the window has replaced
Replaced(d) ==
    [IsConnected |-> d.IsConnected, polling |-> d.polling, enabled |-> d.enabled]

\* the application is running: the window is shown, with no session; whether
\* the buttons that command the stage start enabled is the design's choice
InitGui ==
    /\ scope = "gui"
    /\ stage = NoStage
    /\ drv = FreshDriver
    /\ last = [op |-> "start", arg |-> NoArg, exc |-> "none", cmds |-> <<>>,
               out |-> <<>>, ret |-> <<>>]
    /\ window \in {[NoWindow EXCEPT !.enabled = e] : e \in BOOLEAN}

\* mywindow.connectDeviceClicked with the accepted identity in the text box:
\* a session is constructed and bound to the attribute stage, by which the
\* session held before loses its last reference and is finalised; then
\* connect, set_close_loop(True) and get_info are called
connectDeviceClicked(ID, DeviceList, open, settings, arg) ==
    LET w0 == init(World(NoStage, FreshDriver), ID, DefaultMapping, DeviceList)
        wd == IF window.held THEN del(World(stage, drv)) ELSE World(stage, drv)
        w1 == connect([w0 EXCEPT !.cmds = @ \o wd.cmds], open, settings)
    IN  IF Raised(w0)
        THEN /\ last' = Done("connectDeviceClicked", arg, w0)
             /\ UNCHANGED <<stage, drv, window>>
        ELSE \E w2 \in {set_close_loop(w1, TRUE)} :
             \E w3 \in {IF Raised(w2) THEN w2 ELSE get_info(w2)} :
                /\ stage' = w3.s
                /\ drv' = w3.d
                /\ last' = Done("connectDeviceClicked", arg, w3)
                /\ window' = [held     |-> TRUE,
                              enabled  |-> window.enabled \/ ~Raised(w2),
                              led      |-> IF Raised(w2) THEN window.led ELSE "green",
                              replaced |-> IF window.held THEN <<Replaced(wd.d)>>
                                           ELSE window.replaced]

\* what a click on the connect button met: the identity in the text box,
\* whether the device list held it, whether the window held a session, and
\* what the driver did in connect
Click(ID, DeviceList, open, settings) ==
    [ID |-> ID, listed |-> ID \in DeviceList, held |-> window.held,
     open |-> open, timeout |-> TimedOut(settings)]

\* a click on the connect button: with another identity than the accepted
\* one in the text box, with the accepted one and the device not listed,
\* and with the accepted one and the device listed
ConnectDeviceClicked ==
    /\ scope = "gui"
    /\ UNCHANGED scope
    /\ \/ \E ID \in OtherIDs :
             /\ window' = [window EXCEPT !.led = "red"]
             /\ last' = Done("connectDeviceClicked",
                             Click(ID, {}, "raise", AllReady), World(stage, drv))
             /\ UNCHANGED <<stage, drv>>
       \/ \E DeviceList \in DeviceLists :
             /\ KnownID \notin DeviceList
             /\ connectDeviceClicked(KnownID, DeviceList, "raise", AllReady,
                                     Click(KnownID, DeviceList, "raise", AllReady))
       \/ \E open \in {"done", "failed", "raise"},
             settings \in [AxisSet -> {"ready", "waited", "timeout"}] :
             connectDeviceClicked(KnownID, {KnownID}, open, settings,
                                  Click(KnownID, {KnownID}, open, settings))

\* a call of a method on the attribute stage of the window, which raises
\* when the attribute is None
StageCall(op, arg, w) ==
    /\ scope = "gui"
    /\ window.enabled
    /\ UNCHANGED <<scope, window>>
    /\ IF window.held
       THEN stage' = w.s /\ drv' = w.d /\ last' = Done(op, arg, w)
       ELSE /\ last' = Done(op, arg, Raise(World(stage, drv), "AttributeError"))
            /\ UNCHANGED <<stage, drv>>

\* mywindow.identifyDeviceClicked, the axis taken from the combo box
IdentifyDeviceClicked ==
    \E axis \in AxisSet :
       StageCall("identifyDeviceClicked", [axis |-> axis],
                 identify(World(stage, drv), axis))

\* mywindow.setZeroClicked
SetZeroClicked ==
    StageCall("setZeroClicked", NoArg, zero(World(stage, drv), "all"))

\* mywindow.setPositionClicked, the positions taken from the three spin boxes
SetPositionClicked ==
    \E pos \in [AxisSet -> {Given(v) : v \in PosValues}] :
       StageCall("setPositionClicked", [pos |-> pos],
                 set_position(World(stage, drv), pos))

\* mywindow.cleanup, the slot of aboutToQuit: the session is shut down and
\* the attribute stage set to None, by which the session is finalised; ret
\* lists the calls of shutdown that cleanup makes itself
cleanup ==
    LET arg == [held |-> window.held]
        w == [shutdown(World(stage, drv)) EXCEPT !.ret = <<"shutdown">>]
        wd == del(w)
    IN  IF ~window.held
        THEN /\ last' = Done("cleanup", arg, World(stage, drv))
             /\ window' = [window EXCEPT !.led = "lightgrey"]
             /\ UNCHANGED <<stage, drv>>
        ELSE IF Raised(w)
             THEN /\ last' = Done("cleanup", arg, w)
                  /\ stage' = w.s
                  /\ drv' = w.d
                  /\ UNCHANGED window
             ELSE /\ last' = Done("cleanup", arg, wd)
                  /\ stage' = NoStage
                  /\ drv' = wd.d
                  /\ window' = [window EXCEPT !.held = FALSE, !.led = "lightgrey"]

\* main: the application quits and aboutToQuit calls cleanup
AboutToQuit ==
    /\ scope = "gui"
    /\ scope' = "quit"
    /\ cleanup

\* the GUI: clicks on its buttons until the application quits
NextGui ==
    \/ ConnectDeviceClicked
    \/ IdentifyDeviceClicked
    \/ SetZeroClicked
    \/ SetPositionClicked
    \/ AboutToQuit

SpecGui == InitGui /\ [][NextGui]_vars

\* ---------------------------------------------------------------- claims

\* the session is Connected: it reports so, the controller is connected and
\* the three channels are acquired, polling and enabled
Acquired(a) == stage.channel[a] = Handle(stage.axis_chan_mapping[a])

Connected ==
    /\ stage.controller
    /\ stage.isconnected
    /\ drv.IsConnected
    /\ \A a \in AxisSet :
          /\ Acquired(a)
          /\ drv.polling[stage.axis_chan_mapping[a]]
          /\ drv.enabled[stage.axis_chan_mapping[a]]

\* the driver calls of the last method with one of the names
Calls(names) == {i \in DOMAIN last.cmds : last.cmds[i].cmd \in names}

\* C1: constructing a session with a device identity that is not discovered
\* raises the device-not-ready error, creates no controller object, makes no
\* connection attempt and leaves no session to connect later
C1_UnknownDeviceNotReady ==
    (last.op = "__init__" /\ last.arg.deviceID \notin last.arg.DeviceList)
        => /\ last.exc = "DeviceNotReadyException"
           /\ Calls({"CreateBenchtopPiezo", "Connect"}) = {}
           /\ ~stage.controller
           /\ scope = "none"

C1_Witness ==
    /\ last.op = "__init__"
    /\ last.arg.deviceID \notin last.arg.DeviceList
    /\ last.arg.DeviceList # {}
    /\ last.exc = "DeviceNotReadyException"
    /\ Calls({"BuildDeviceList"}) # {}

\* C2: once a with-block has been left, the controller is disconnected and
\* no channel is polling or enabled
C2_ExitReleases ==
    scope = "exited"
        => /\ ~drv.IsConnected
           /\ \A c \in ChannelNos : ~drv.polling[c] /\ ~drv.enabled[c]

\* C3: shutdown never raises, and a shutdown of a session whose controller
\* is connected always reaches the controller's Disconnect
C3_ShutdownNeverRaises ==
    last.op = "shutdown"
        => /\ last.exc = "none"
           /\ (Calls({"StopPolling", "DisableDevice"}) # {} => Calls({"Disconnect"}) # {})

\* C4: right after a shutdown, a second shutdown issues no stop-polling,
\* disable or disconnect call and changes neither the session nor the
\* driver objects
C4_ShutdownIdempotent ==
    last.op = "shutdown"
        => LET again == shutdown(World(stage, drv))
           IN  /\ \A i \in DOMAIN again.cmds :
                     again.cmds[i].cmd \notin {"StopPolling", "DisableDevice", "Disconnect"}
               /\ again.s = stage
               /\ again.d = drv

\* C5: connect on a Connected session issues no driver call and changes
\* neither the session nor the driver objects
C5_ConnectWhenConnected ==
    [][(Connected /\ last'.op = "connect")
          => /\ last'.cmds = <<>>
             /\ stage' = stage
             /\ drv' = drv]_vars

\* C6: a connect whose controller open raised, or left the controller not
\* connected, ends in an error and acquires, polls and enables no channel
C6_OpenFailureStops ==
    (/\ last.op = "connect"
     /\ \/ last.arg.open = "raise"
        \/ last.arg.open = "failed" /\ ~stage.isconnected)
        => /\ last.exc # "none"
           /\ Calls({"GetChannel", "StartPolling", "EnableDevice"}) = {}

\* C7: a session reports itself connected only if its three channels are
\* acquired, polling and enabled
C7_ConnectedMeansAllChannels ==
    stage.isconnected
        => \A a \in AxisSet :
              /\ Acquired(a)
              /\ drv.polling[stage.axis_chan_mapping[a]]
              /\ drv.enabled[stage.axis_chan_mapping[a]]

\* C8: shutdown on a Connected session leaves the connection flag false, the
\* controller disconnected and the three channels disabled and not polling
C8_ShutdownDisconnects ==
    [][(Connected /\ last'.op = "shutdown")
          => /\ ~stage'.isconnected
             /\ ~drv'.IsConnected
             /\ \A c \in ChannelNos : ~drv'.polling[c] /\ ~drv'.enabled[c]]_vars

\* C9: set_position on a Connected session makes one SetPosition call, with
\* the value given, on the channel of each axis whose coordinate is given and
\* no call on the channel of an axis whose coordinate is absent, whose mode,
\* zero reference and position stay as they were; it makes no other call
C9_SetPositionFrame ==
    [][(Connected /\ last'.op = "set_position")
          => /\ last'.exc = "none"
             /\ Len(last'.cmds) = Cardinality({a \in AxisSet : last'.arg.pos[a] # Absent})
             /\ \A a \in AxisSet :
                   LET ch == stage.axis_chan_mapping[a]
                       on == {i \in DOMAIN last'.cmds : last'.cmds[i].ch = ch}
                       pos == last'.arg.pos[a]
                   IN  IF pos = Absent
                       THEN /\ on = {}
                            /\ drv'.position[ch] = drv.position[ch]
                            /\ drv'.mode[ch] = drv.mode[ch]
                            /\ drv'.zeroed[ch] = drv.zeroed[ch]
                       ELSE /\ Cardinality(on) = 1
                            /\ \A i \in on :
                                  /\ last'.cmds[i].cmd = "SetPosition"
                                  /\ Thousandths(last'.cmds[i].val) = pos[1]
                            /\ Thousandths(drv'.position[ch]) = pos[1]]_vars

\* a Connected session with a position on every channel, a zero reference
\* and closed-loop mode has been sent set_position with x absent and y given
C9_Witness ==
    /\ Connected
    /\ last.op = "set_position"
    /\ last.exc = "none"
    /\ last.arg.pos["x"] = Absent
    /\ last.arg.pos["y"] # Absent
    /\ Len(last.cmds) = Cardinality({a \in AxisSet : last.arg.pos[a] # Absent})
    /\ drv.position[stage.axis_chan_mapping["x"]] # <<>>
    /\ drv.zeroed[stage.axis_chan_mapping["x"]]
    /\ drv.mode[stage.axis_chan_mapping["x"]] = "CloseLoop"
    /\ stage.axis_chan_mapping # DefaultMapping

\* C10: zero with a token outside x, y, z, all makes no driver call, raises
\* nothing, reports the axis invalid and changes neither the session nor the
\* driver objects; on a Connected session zero of one axis makes one SetZero
\* call, on that axis's channel, and zero of "all" one SetZero call on each
\* of the three channels
C10_ZeroByToken ==
    [][last'.op = "zero"
          => LET axis == last'.arg.axis
                 zeros(ch) == {i \in DOMAIN last'.cmds :
                                  last'.cmds[i].cmd = "SetZero" /\ last'.cmds[i].ch = ch}
             IN  /\ axis \notin AxisSet \cup {"all"}
                      => /\ last'.cmds = <<>>
                         /\ last'.exc = "none"
                         /\ \E i \in DOMAIN last'.out : last'.out[i] = "axis invalid"
                         /\ stage' = stage
                         /\ drv' = drv
                 /\ (Connected /\ axis \in AxisSet)
                      => /\ last'.exc = "none"
                         /\ Len(last'.cmds) = 1
                         /\ Cardinality(zeros(stage.axis_chan_mapping[axis])) = 1
                         /\ drv' = [drv EXCEPT !.zeroed[stage.axis_chan_mapping[axis]] = TRUE]
                 /\ (Connected /\ axis = "all")
                      => /\ last'.exc = "none"
                         /\ Len(last'.cmds) = 3
                         /\ \A ch \in ChannelNos : Cardinality(zeros(ch)) = 1
                         /\ drv' = [drv EXCEPT !.zeroed = [c \in ChannelNos |-> TRUE]]
                         /\ stage' = stage]_vars

\* a Connected session of which one channel only has a zero reference has
\* been sent zero with an invalid token
C10_Witness ==
    /\ Connected
    /\ last.op = "zero"
    /\ last.arg.axis \in BadTokens
    /\ last.cmds = <<>>
    /\ last.exc = "none"
    /\ Cardinality({c \in ChannelNos : drv.zeroed[c]}) = 1

\* C11: identify with a token outside x, y, z ends in an error and makes no
\* IdentifyDevice call on any channel
C11_IdentifyInvalidFails ==
    (last.op = "identify" /\ last.arg.axis \notin AxisSet)
        => /\ last.exc # "none"
           /\ Calls({"IdentifyDevice"}) = {}

\* C11, amended: identify with a token outside x, y, z raises nothing,
\* reports the axis invalid and makes no driver call
C11_IdentifyInvalidReported ==
    (last.op = "identify" /\ last.arg.axis \notin AxisSet)
        => /\ last.exc = "none"
           /\ \E i \in DOMAIN last.out : last.out[i] = "axis invalid"
           /\ last.cmds = <<>>

\* a Connected session, which could identify a channel, has been sent
\* identify with an invalid token
C11_Witness ==
    /\ Connected
    /\ last.op = "identify"
    /\ last.arg.axis \in BadTokens
    /\ last.cmds = <<>>
    /\ stage.axis_chan_mapping # DefaultMapping

\* C12: on a session that is not Connected, because connect was never
\* called or because shutdown has been performed, identify, set_close_loop,
\* zero and set_position make no driver call on any channel
C12_NoCommandUnlessConnected ==
    [][(/\ ~Connected
        /\ last'.op \in {"identify", "set_close_loop", "zero", "set_position"})
          => \A i \in DOMAIN last'.cmds : last'.cmds[i].ch \notin ChannelNos]_vars

\* C13: get_info on a Connected session returns the controller's section
\* first and then one section per axis, in ascending order of channel number,
\* each naming the axis mapped to its channel
C13_InfoByChannel ==
    (Connected /\ last.op = "get_info")
        => /\ last.exc = "none"
           /\ Len(last.ret) = 1 + Cardinality(AxisSet)
           /\ last.ret[1] = <<0, "Controller">>
           /\ {last.ret[i][2] : i \in 2..Len(last.ret)} = AxisSet
           /\ \A i \in 2..Len(last.ret) :
                 /\ last.ret[i][1] = stage.axis_chan_mapping[last.ret[i][2]]
                 /\ \A j \in 2..Len(last.ret) :
                       i < j => last.ret[i][1] < last.ret[j][1]

\* a Connected session whose mapping gives x the last channel and z the
\* first has returned its description
C13_Witness ==
    /\ Connected
    /\ last.op = "get_info"
    /\ stage.axis_chan_mapping["x"] = 3
    /\ stage.axis_chan_mapping["z"] = 1
    /\ Len(last.ret) = 4
    /\ last.ret[2] = <<1, "z">>

\* the places, in the driver calls of the last method, of the calls on a
\* channel and of the calls of one name on a channel
On(ch) == {i \in DOMAIN last.cmds : last.cmds[i].ch = ch}
At(name, ch) == {i \in On(ch) : last.cmds[i].cmd = name}

\* C15: in a connect the controller's Connect comes before every call on a
\* channel; on each channel GetChannel comes first, the test of (and the
\* wait for) the settings before StartPolling, and StartPolling before
\* EnableDevice; the channels are handled in the order x, y, z, none before
\* the one before it has been enabled
C15_ConnectOrder ==
    last.op = "connect"
        => /\ last.cmds # <<>>
           /\ last.cmds[1].cmd = "Connect"
           /\ Cardinality(Calls({"Connect"})) = 1
           /\ \A a \in AxisSet :
                 LET ch == stage.axis_chan_mapping[a]
                 IN  On(ch) # {}
                       => /\ Cardinality(At("GetChannel", ch)) = 1
                          /\ \A g \in At("GetChannel", ch), i \in On(ch) : g <= i
                          /\ \A p \in At("StartPolling", ch) :
                                /\ \E t \in At("IsSettingsInitialized", ch) : t < p
                                /\ \A t \in At("WaitForSettingsInitialized", ch) : t < p
                          /\ \A e \in At("EnableDevice", ch) :
                                \E p \in At("StartPolling", ch) : p < e
           /\ \A k, l \in DOMAIN Axes :
                 k < l
                   => LET ca == stage.axis_chan_mapping[Axes[k]]
                          cb == stage.axis_chan_mapping[Axes[l]]
                      IN  On(cb) # {}
                            => /\ At("EnableDevice", ca) # {}
                               /\ \A i \in On(ca), j \in On(cb) : i < j

\* a connect that opened the controller and started the three channels, one
\* of them after a wait for its settings, under another mapping than the
\* default
C15_Witness ==
    /\ last.op = "connect"
    /\ last.exc = "none"
    /\ Connected
    /\ Cardinality(Calls({"EnableDevice"})) = 3
    /\ Cardinality(Calls({"WaitForSettingsInitialized"})) = 1
    /\ stage.axis_chan_mapping # DefaultMapping

\* C16: in a shutdown every DisableDevice on a channel comes after the
\* StopPolling on that channel, the channels are handled in the order x, y, z
\* and the controller's Disconnect comes after the StopPolling and the
\* DisableDevice of the three channels, when no channel is polling or enabled
C16_ShutdownOrder ==
    last.op \in {"shutdown", "__exit__"}
        => /\ \A ch \in ChannelNos :
                 \A d \in At("DisableDevice", ch) :
                    \E p \in At("StopPolling", ch) : p < d
           /\ \A k, l \in DOMAIN Axes :
                 k < l
                   => \A i \in On(stage.axis_chan_mapping[Axes[k]]),
                         j \in On(stage.axis_chan_mapping[Axes[l]]) : i < j
           /\ \A c \in Calls({"Disconnect"}) :
                 /\ c = Len(last.cmds)
                 /\ \A ch \in ChannelNos :
                       /\ \E p \in At("StopPolling", ch) : p < c
                       /\ \E d \in At("DisableDevice", ch) : d < c
                       /\ ~drv.polling[ch]
                       /\ ~drv.enabled[ch]

\* a session connected under another mapping than the default has been shut
\* down: its three channels were stopped and disabled and its controller
\* disconnected
C16_Witness ==
    /\ last.op = "shutdown"
    /\ last.exc = "none"
    /\ Len(last.cmds) = 7
    /\ last.cmds[7].cmd = "Disconnect"
    /\ stage.axis_chan_mapping # DefaultMapping
    /\ ~drv.IsConnected

\* after a connect in which the wait for the settings of a channel raised:
\* the connect raised the timeout error at that wait, made no StartPolling
\* and no EnableDevice call on that channel or on a later one, and the
\* channels before it are polling and enabled
TimeoutStopsConnect ==
    (/\ last.op = "connect"
     /\ last.arg.open # "raise"
     /\ last.arg.timeout \in AxisSet)
        => LET k == CHOOSE i \in DOMAIN Axes : Axes[i] = last.arg.timeout
               chan(i) == stage.axis_chan_mapping[Axes[i]]
           IN  /\ last.exc = "SettingsTimeoutException"
               /\ last.cmds[Len(last.cmds)] =
                      Cmd("WaitForSettingsInitialized", chan(k), <<SettingsTimeout>>, "")
               /\ \A l \in DOMAIN Axes :
                     IF l < k
                     THEN /\ At("StartPolling", chan(l)) # {}
                          /\ At("EnableDevice", chan(l)) # {}
                          /\ drv.polling[chan(l)]
                          /\ drv.enabled[chan(l)]
                     ELSE /\ At("StartPolling", chan(l)) = {}
                          /\ At("EnableDevice", chan(l)) = {}

\* C17: a connect in which the settings of a channel fail to initialize
\* raises the timeout error at that channel, without starting the polling of
\* or enabling that channel or a later one, and the earlier channels are
\* polling and enabled; a channel that is polling and enabled stays so under
\* every call that is not a shutdown
C17_TimeoutKeepsEarlier ==
    [][/\ TimeoutStopsConnect'
       /\ last'.op \in {"connect", "identify", "get_info", "body"}
             => \A ch \in ChannelNos :
                   /\ drv.polling[ch] => drv'.polling[ch]
                   /\ drv.enabled[ch] => drv'.enabled[ch]]_vars

\* a connect on a fresh session whose wait for the settings of the y channel
\* raised, under another mapping than the default: x alone is polling
C17_Witness ==
    /\ last.op = "connect"
    /\ last.arg.open = "done"
    /\ last.arg.timeout = "y"
    /\ last.exc = "SettingsTimeoutException"
    /\ stage.axis_chan_mapping # DefaultMapping
    /\ \A a \in AxisSet : drv.polling[stage.axis_chan_mapping[a]] <=> a = "x"
    /\ stage.channel["z"] = None

\* the session is as its construction left it: connect was never called, or
\* has left no trace
AsConstructed ==
    /\ scope \in {"plain", "with"}
    /\ stage.controller
    /\ ~stage.isconnected
    /\ \A a \in AxisSet : stage.channel[a] = None
    /\ drv = FreshDriver

\* C18: shutdown on a session as its construction left it makes no driver
\* call, raises nothing and changes neither the attributes of the session
\* nor the driver objects
C18_ShutdownFreshNoOp ==
    [][(AsConstructed /\ last'.op = "shutdown")
          => /\ last'.cmds = <<>>
             /\ last'.exc = "none"
             /\ stage' = stage
             /\ drv' = drv]_vars

\* a session constructed with another mapping than the default, on which
\* no connect was called, has been shut down
C18_Witness ==
    /\ AsConstructed
    /\ last.op = "shutdown"
    /\ last.cmds = <<>>
    /\ last.exc = "none"
    /\ stage.axis_chan_mapping # DefaultMapping
    /\ stage.deviceID = KnownID

\* C19: leaving a with-block raises the exception that the body of the
\* block raised, and raises nothing when the body ended without one
C19_ExitKeepsException ==
    last.op = "__exit__" => last.exc = last.arg.exc_type

\* C14: when the application quits, cleanup calls shutdown once on the
\* session the window holds, and not at all if it holds none, and the window
\* holds no session afterwards
C14_CleanupReleases ==
    last.op = "cleanup"
        => /\ last.ret = IF last.arg.held THEN <<"shutdown">> ELSE <<>>
           /\ ~window.held
           /\ stage = NoStage

\* C20: after a click on connect that replaced a session, the controller of
\* the replaced session is disconnected and none of its channels is polling
\* or enabled, and every call of its shutdown came before the Connect of the
\* new session; the replaced session and the session held are never both
\* connected
C20_OneSessionConnected ==
    /\ \A i \in DOMAIN window.replaced :
          /\ ~window.replaced[i].IsConnected
          /\ \A ch \in ChannelNos :
                ~window.replaced[i].polling[ch] /\ ~window.replaced[i].enabled[ch]
    /\ (last.op = "connectDeviceClicked" /\ last.arg.held)
          => \A i \in Calls({"StopPolling", "DisableDevice", "Disconnect"}),
                j \in Calls({"Connect"}) : i < j
====
